---- MODULE Spec2Model ----
(***************************************************************************)
(* mariadb_to_mongo.py: copy one MySQL/MariaDB table into one MongoDB      *)
(* collection.  The module models the MariaDBToMongo class (connection     *)
(* handles, column introspection, row extraction with value conversion,    *)
(* the ordered insert) and the __main__ script that drives it, step by     *)
(* step, together with the two stores it talks to.                         *)
(***************************************************************************)
EXTENDS Integers, Sequences, FiniteSets, TLC

\* ------------------------------------------------------------------ bounds
MaxRows == 2        \* rows in the source table
MaxCalls == 5       \* method calls in a free call sequence on one instance

\* ------------------------------------------------------------------ values
\* A Python value: its type name t and two integer components a, b.
Val(t, a, b) == [t |-> t, a |-> a, b |-> b]

\* self.connection / self.client when no handle is held.
None == 0

NoneValue == Val("NoneType", 0, 0)

\* Column types of the source table and the Python values the mariadb
\* driver hands back for them.
ColumnValues(type) ==
    CASE type = "int"      -> {Val("int", 1, 0), Val("int", 2, 0)}
      [] type = "decimal"  -> {Val("Decimal", 999, 2)}
      [] type = "date"     -> {Val("date", 18482, 0)}
      [] type = "datetime" -> {Val("datetime", 18482, 0), Val("datetime", 18482, 75644)}
      [] type = "time"     -> {Val("timedelta", 3600, 0)}
      [] type = "varchar"  -> {Val("str", 1, 0), NoneValue}
      [] type = "double"   -> {Val("float", 15, 1)}
      [] type = "bool"     -> {Val("bool", 1, 0)}
      [] type = "blob"     -> {Val("bytes", 255, 0)}

Col(name, type) == [name |-> name, type |-> type]

\* The table layouts explored: an integer key, alone or followed by one
\* column of each other type.
TableLayouts ==
    { <<Col("id", "int")>> } \cup
    { <<Col("id", "int"), c>> : c \in
        { Col("price", "decimal"), Col("created", "date"), Col("ts", "datetime"),
          Col("dur", "time"), Col("name", "varchar"), Col("ratio", "double"),
          Col("flag", "bool"), Col("data", "blob") } }

\* Rows of a layout: one value of the column's type per position.
RowsOf(layout) ==
    { r \in [1..Len(layout) -> UNION {ColumnValues(layout[i].type) : i \in 1..Len(layout)}] :
        \A i \in 1..Len(layout) : r[i] \in ColumnValues(layout[i].type) }

SeqsUpTo(S, n) == UNION { [1..k -> S] : k \in 0..n }

\* Possible readings of the wall clock (datetime.utcnow()), as <<day, second>>.
Clock == { <<19000, 100>>, <<19000, 101>> }

SRCTBL == "t"

VARIABLES
    pc,             \* position of the __main__ script ("api" in free call sequences)
    exitCode,       \* process exit status, -1 while running
    error,          \* the uncaught exception that ended the run, if any
    result,         \* inserted count of the InsertManyResult returned, -1 if none
    connection,     \* self.connection: None or a handle
    client,         \* self.client: None or a handle
    handles,        \* every handle ever opened: its kind and how often it was closed
    catalog,        \* INFORMATION_SCHEMA.COLUMNS as the source connection sees it
    tblExists,      \* whether the connection's database holds table SRCTBL
    tblRows,        \* rows of SRCTBL in the connection's database
    col_names,      \* get_rows_dict_list: col_names
    cursorPos,      \* rows the scan cursor has yielded
    rows_dict_list, \* get_rows_dict_list: rows_dict_list
    conv,           \* history: every (input, output) pair of the value conversion
    uniqueIdx,      \* whether the target collection has a unique index on "id"
    target,         \* documents of the target collection
    target0,        \* documents of the target collection before the run
    writes,         \* insert calls issued to the target
    started,        \* history: pipeline steps that have been started
    connectFailed,  \* history: mariadb.connect raised
    lastOp,         \* history: last method called in a free call sequence
    raised,         \* history: exception raised by that call
    ncalls          \* history: number of calls in a free call sequence

vars == << pc, exitCode, error, result, connection, client, handles, catalog,
           tblExists, tblRows, col_names, cursorPos, rows_dict_list, conv,
           uniqueIdx, target, target0, writes, started, connectFailed,
           lastOp, raised, ncalls >>

objVars == << connection, client, handles >>
srcVars == << catalog, tblExists, tblRows >>
extractVars == << col_names, cursorPos, rows_dict_list, conv >>
tgtVars == << uniqueIdx, target, target0, writes >>
apiVars == << lastOp, raised, ncalls >>

NoError == [kind |-> "none", at |-> "none", nInserted |-> 0]

\* ------------------------------------------------------------ the instance
\* The instance as a record, for the methods that only touch the handles.
\* exc is the exception the method raised ("none" when it returned).
Self == [connection |-> connection, client |-> client, handles |-> handles,
         exc |-> "none"]

NewHandle(kind) == [kind |-> kind, closes |-> 0]

\* connect: the driver's error is caught and printed; self.connection keeps
\* whatever it held.
connect(self, ok) ==
    IF ok
      THEN [self EXCEPT !.handles = Append(@, NewHandle("mariadb")),
                        !.connection = Len(self.handles) + 1]
      ELSE self

\* open_client: MongoClient(uri) raises on an unusable URI, nothing catches it.
open_client(self, ok) ==
    IF ok
      THEN [self EXCEPT !.handles = Append(@, NewHandle("mongo")),
                        !.client = Len(self.handles) + 1]
      ELSE [self EXCEPT !.exc = "ConfigurationError"]

\* close_client: self.client.close(); self.client = None.
close_client(self) ==
    IF self.client = None
      THEN [self EXCEPT !.exc = "AttributeError"]
      ELSE [self EXCEPT !.handles[self.client].closes = @ + 1,
                        !.client = None]

\* Variant: the handle is closed but the field is not reset.
close_connection_keeps_field(self) ==
    IF self.connection = None
      THEN [self EXCEPT !.exc = "AttributeError"]
      ELSE [self EXCEPT !.handles[self.connection].closes = @ + 1]

\* close_connection: self.connection.close(); self.connection = None.
close_connection(self) ==
    IF self.connection = None
      THEN [self EXCEPT !.exc = "AttributeError"]
      ELSE [self EXCEPT !.handles[self.connection].closes = @ + 1,
                        !.connection = None]

\* close: each handle is closed only when its field is truthy.
close(self) ==
    LET s1 == IF self.connection # None THEN close_connection(self) ELSE self
    IN  IF s1.exc = "none" /\ s1.client # None THEN close_client(s1) ELSE s1

\* Store the instance record back into the state.
SetSelf(s) ==
    /\ connection' = s.connection
    /\ client' = s.client
    /\ handles' = s.handles

OpenHandles == { h \in 1..Len(handles) : handles[h].closes = 0 }

\* --------------------------------------------------------- the source store
Entry(schema, table, column) == [schema |-> schema, table |-> table, column |-> column]

\* INFORMATION_SCHEMA.COLUMNS: the columns of SRCTBL in the connection's
\* database (when it exists), those of a same-named table in another
\* database (other, possibly none), and one unrelated table; the catalog
\* lists one database after the other.
Catalog(layout, exists, other, otherFirst) ==
    LET own   == IF exists
                   THEN [i \in 1..Len(layout) |-> Entry("sourcedb", SRCTBL, layout[i].name)]
                   ELSE << >>
        alien == [i \in 1..Len(other) |-> Entry("otherdb", SRCTBL, other[i])]
        unrel == << Entry("sourcedb", "u", "z") >>
    IN  IF otherFirst THEN alien \o own \o unrel ELSE own \o unrel \o alien

\* Column lists of a same-named table in another database.
OtherLayouts == { << >>, << "x" >>, << "id" >> }

\* get_column_names: COLUMN_NAME of every catalog row whose TABLE_NAME is
\* table_name, in the order the catalog reports them.
RECURSIVE get_column_names(_, _)
get_column_names(cat, table_name) ==
    IF cat = << >> THEN << >>
    ELSE LET rest == get_column_names(Tail(cat), table_name)
         IN  IF Head(cat).table = table_name
               THEN << Head(cat).column >> \o rest
               ELSE rest

\* ------------------------------------------------------- value conversion
\* isinstance(value, datetime.date): datetime.datetime is a subclass of
\* datetime.date.
IsDate(value) == value.t \in {"date", "datetime"}

\* The conversion of one value in get_rows_dict_list; now is what
\* datetime.utcnow() returns.
normalize(value, now) ==
    IF value.t = "Decimal" THEN Val("Decimal128", value.a, value.b)
    ELSE IF IsDate(value) THEN Val("datetime", value.a, 0)
    ELSE IF value.t = "timedelta" THEN Val("datetime", now[1], now[2])
    ELSE value

\* A Python dict as the sequence of its items in insertion order.
Item(k, v) == [k |-> k, v |-> v]
Keys(d) == [i \in 1..Len(d) |-> d[i].k]
HasKey(d, k) == \E i \in 1..Len(d) : d[i].k = k
Get(d, k) == d[CHOOSE i \in 1..Len(d) : d[i].k = k].v

\* d[k] = v: an existing key keeps its place and takes the new value.
DictSet(d, k, v) ==
    IF HasKey(d, k)
      THEN [i \in 1..Len(d) |-> IF d[i].k = k THEN Item(k, v) ELSE d[i]]
      ELSE Append(d, Item(k, v))

\* The body of "for row in cursor": the dict built from row positions i..;
\* col_names[i] raises IndexError when col_names has no entry for a position.
RECURSIVE row_dict(_, _, _, _, _)
row_dict(row, cols, now, i, d) ==
    IF i > Len(row) THEN [exc |-> "none", d |-> d]
    ELSE IF i > Len(cols) THEN [exc |-> "IndexError", d |-> d]
    ELSE row_dict(row, cols, now, i + 1, DictSet(d, cols[i], normalize(row[i], now)))

Conversions(row, now) == { [in |-> row[i], out |-> normalize(row[i], now)] : i \in 1..Len(row) }

\* --------------------------------------------------------- the target store
\* The value the unique index on "id" sees: a document without the field
\* is indexed as null.
IndexKey(doc) == IF HasKey(doc, "id") THEN Get(doc, "id") ELSE NoneValue

Rejects(tgt, unique, doc) ==
    unique /\ \E j \in 1..Len(tgt) : IndexKey(tgt[j]) = IndexKey(doc)

\* insert_many(ordered=True) on a reachable server: documents go in one by
\* one and the first rejected one ends the call.
RECURSIVE OrderedInsert(_, _, _, _)
OrderedInsert(tgt, unique, docs, n) ==
    IF docs = << >> THEN [target |-> tgt, exc |-> "none", nInserted |-> n]
    ELSE IF Rejects(tgt, unique, Head(docs))
      THEN [target |-> tgt, exc |-> "BulkWriteError", nInserted |-> n]
    ELSE OrderedInsert(Append(tgt, Head(docs)), unique, Tail(docs), n + 1)

\* insert_many(ordered=False): a rejected document is skipped and the rest
\* are still attempted.
RECURSIVE UnorderedInsert(_, _, _, _, _)
UnorderedInsert(tgt, unique, docs, n, failed) ==
    IF docs = << >>
      THEN [target |-> tgt, exc |-> IF failed THEN "BulkWriteError" ELSE "none",
            nInserted |-> n]
    ELSE IF Rejects(tgt, unique, Head(docs))
      THEN UnorderedInsert(tgt, unique, Tail(docs), n, TRUE)
    ELSE UnorderedInsert(Append(tgt, Head(docs)), unique, Tail(docs), n + 1, failed)

\* Variant of put_rows: the insert is not ordered.
put_rows_unordered(rows, tgt, unique, up) ==
    IF rows = << >> THEN [target |-> tgt, exc |-> "TypeError", nInserted |-> 0]
    ELSE IF ~up THEN [target |-> tgt, exc |-> "ServerSelectionTimeoutError", nInserted |-> 0]
    ELSE UnorderedInsert(tgt, unique, rows, 0, FALSE)

\* put_rows: collection.insert_many(rows).  pymongo refuses an empty list
\* ("documents must be a non-empty list") before contacting the server.
put_rows(rows, tgt, unique, up) ==
    IF rows = << >> THEN [target |-> tgt, exc |-> "TypeError", nInserted |-> 0]
    ELSE IF ~up THEN [target |-> tgt, exc |-> "ServerSelectionTimeoutError", nInserted |-> 0]
    ELSE OrderedInsert(tgt, unique, rows, 0)

\* ------------------------------------------------------------ initial states
Doc1(v) == << Item("id", v) >>

\* Documents already in the target collection, by "id".
PreDocs(pre) ==
    (IF 1 \in pre THEN << Doc1(Val("int", 1, 0)) >> ELSE << >>) \o
    (IF 2 \in pre THEN << Doc1(Val("int", 2, 0)) >> ELSE << >>)

\* A fresh instance (__init__) and nothing run yet.
Fresh ==
    /\ exitCode = -1
    /\ error = NoError
    /\ result = -1
    /\ connection = None
    /\ client = None
    /\ handles = << >>
    /\ col_names = << >>
    /\ cursorPos = 0
    /\ rows_dict_list = << >>
    /\ conv = {}
    /\ writes = 0
    /\ started = {}
    /\ connectFailed = FALSE
    /\ lastOp = "none"
    /\ raised = "none"
    /\ ncalls = 0

\* The script is about to run against some source database and some target
\* collection.
Init ==
    /\ pc = "parse"
    /\ Fresh
    /\ \E layout \in TableLayouts, other \in OtherLayouts, otherFirst \in BOOLEAN :
         /\ tblExists \in BOOLEAN
         /\ catalog = Catalog(layout, tblExists, other, otherFirst)
         /\ tblRows \in (IF tblExists THEN SeqsUpTo(RowsOf(layout), MaxRows) ELSE { << >> })
    /\ uniqueIdx \in BOOLEAN
    /\ \E pre \in (IF uniqueIdx THEN SUBSET {1, 2} ELSE { {} }) : target0 = PreDocs(pre)
    /\ target = target0

\* A fresh instance whose methods are called in any order.
InitApi ==
    /\ pc = "api"
    /\ Fresh
    /\ catalog = << >>
    /\ tblExists = FALSE
    /\ tblRows = << >>
    /\ uniqueIdx = FALSE
    /\ target0 = << >>
    /\ target = target0

\* ------------------------------------------------------------ the script
\* An exception nothing catches: the interpreter prints the traceback and
\* exits with status 1.  n is the nInserted detail of a BulkWriteError.
Raise(kind, at, n) ==
    /\ error' = [kind |-> kind, at |-> at, nInserted |-> n]
    /\ exitCode' = 1
    /\ pc' = "done"

\* PARSER.parse_args() accepts the command line.
ParseArgs ==
    /\ pc = "parse"
    /\ pc' = "connect"
    /\ UNCHANGED << exitCode, error, result, objVars, srcVars, extractVars, tgtVars,
                    started, connectFailed, apiVars >>

\* PARSER.parse_args() rejects the command line: argparse prints the usage
\* and exits with status 2.
ParseArgsFail ==
    /\ pc = "parse"
    /\ exitCode' = 2
    /\ pc' = "done"
    /\ UNCHANGED << error, result, objVars, srcVars, extractVars, tgtVars,
                    started, connectFailed, apiVars >>

\* M_T_M.connect(HOST, DATABASE, USER, PASSWORD)
Connect ==
    /\ pc = "connect"
    /\ \E ok \in BOOLEAN :
         /\ SetSelf(connect(Self, ok))
         /\ connectFailed' = ~ok
    /\ started' = started \cup {"connect"}
    /\ pc' = "open_client"
    /\ UNCHANGED << exitCode, error, result, srcVars, extractVars, tgtVars, apiVars >>

\* M_T_M.open_client(URI)
OpenClient ==
    /\ pc = "open_client"
    /\ started' = started \cup {"open_client"}
    /\ \E ok \in BOOLEAN :
         LET s == open_client(Self, ok)
         IN  /\ SetSelf(s)
             /\ IF s.exc = "none"
                  THEN pc' = "columns" /\ UNCHANGED << exitCode, error >>
                  ELSE Raise(s.exc, "open_client", 0)
    /\ UNCHANGED << result, srcVars, extractVars, tgtVars, connectFailed, apiVars >>

\* get_rows_dict_list: col_names = self.get_column_names(table_name)
GetColumnNames ==
    /\ pc = "columns"
    /\ started' = started \cup {"columns"}
    /\ IF connection = None
         THEN Raise("AttributeError", "columns", 0) /\ UNCHANGED col_names
         ELSE \E ok \in BOOLEAN :
                IF ok
                  THEN /\ col_names' = get_column_names(catalog, SRCTBL)
                       /\ pc' = "scan"
                       /\ UNCHANGED << exitCode, error >>
                  ELSE Raise("mariadb.Error", "columns", 0) /\ UNCHANGED col_names
    /\ UNCHANGED << result, objVars, srcVars, cursorPos, rows_dict_list, conv, tgtVars,
                    connectFailed, apiVars >>

\* get_rows_dict_list: cursor.execute("SELECT * FROM table_name")
OpenScan ==
    /\ pc = "scan"
    /\ started' = started \cup {"scan"}
    /\ IF tblExists
         THEN pc' = "fetch" /\ UNCHANGED << exitCode, error >>
         ELSE Raise("mariadb.ProgrammingError", "scan", 0)
    /\ UNCHANGED << result, objVars, srcVars, extractVars, tgtVars, connectFailed, apiVars >>

\* Variant of FetchRow: each document is inserted as soon as it is built.
FetchRowStreaming ==
    /\ pc = "fetch"
    /\ cursorPos < Len(tblRows)
    /\ \E now \in Clock :
         LET row == tblRows[cursorPos + 1]
             r == row_dict(row, col_names, now, 1, << >>)
         IN  IF r.exc = "none"
               THEN /\ rows_dict_list' = Append(rows_dict_list, r.d)
                    /\ conv' = conv \cup Conversions(row, now)
                    /\ cursorPos' = cursorPos + 1
                    /\ target' = put_rows(<< r.d >>, target, uniqueIdx, TRUE).target
                    /\ writes' = writes + 1
                    /\ UNCHANGED << pc, exitCode, error >>
               ELSE /\ Raise(r.exc, "fetch", 0)
                    /\ UNCHANGED << rows_dict_list, conv, cursorPos, target, writes >>
    /\ UNCHANGED << result, objVars, srcVars, col_names, uniqueIdx, target0,
                    started, connectFailed, apiVars >>

\* get_rows_dict_list: one turn of "for row in cursor"
FetchRow ==
    /\ pc = "fetch"
    /\ cursorPos < Len(tblRows)
    /\ \E now \in Clock :
         LET row == tblRows[cursorPos + 1]
             r == row_dict(row, col_names, now, 1, << >>)
         IN  IF r.exc = "none"
               THEN /\ rows_dict_list' = Append(rows_dict_list, r.d)
                    /\ conv' = conv \cup Conversions(row, now)
                    /\ cursorPos' = cursorPos + 1
                    /\ UNCHANGED << pc, exitCode, error >>
               ELSE /\ Raise(r.exc, "fetch", 0)
                    /\ UNCHANGED << rows_dict_list, conv, cursorPos >>
    /\ UNCHANGED << result, objVars, srcVars, col_names, tgtVars,
                    started, connectFailed, apiVars >>

\* get_rows_dict_list: the cursor fails while the next row is read
FetchFail ==
    /\ pc = "fetch"
    /\ cursorPos < Len(tblRows)
    /\ Raise("mariadb.Error", "fetch", 0)
    /\ UNCHANGED << result, objVars, srcVars, extractVars, tgtVars,
                    started, connectFailed, apiVars >>

\* get_rows_dict_list: the cursor is exhausted, return rows_dict_list
EndOfCursor ==
    /\ pc = "fetch"
    /\ cursorPos = Len(tblRows)
    /\ pc' = "put"
    /\ UNCHANGED << exitCode, error, result, objVars, srcVars, extractVars, tgtVars,
                    started, connectFailed, apiVars >>

\* get_put_rows: self.put_rows(rows, db_name, collection_name)
PutRows ==
    /\ pc = "put"
    /\ started' = started \cup {"put"}
    /\ writes' = writes + 1
    /\ \E up \in BOOLEAN :
         LET r == put_rows(rows_dict_list, target, uniqueIdx, up)
         IN  /\ target' = r.target
             /\ IF r.exc = "none"
                  THEN /\ result' = r.nInserted
                       /\ pc' = "close"
                       /\ UNCHANGED << exitCode, error >>
                  ELSE /\ Raise(r.exc, "put", r.nInserted)
                       /\ UNCHANGED result
    /\ UNCHANGED << objVars, srcVars, extractVars, uniqueIdx, target0,
                    connectFailed, apiVars >>

\* M_T_M.close()
Close ==
    /\ pc = "close"
    /\ started' = started \cup {"close"}
    /\ SetSelf(close(Self))
    /\ pc' = "exit"
    /\ UNCHANGED << exitCode, error, result, srcVars, extractVars, tgtVars,
                    connectFailed, apiVars >>

\* sys.exit(0)
Exit ==
    /\ pc = "exit"
    /\ exitCode' = 0
    /\ pc' = "done"
    /\ UNCHANGED << error, result, objVars, srcVars, extractVars, tgtVars,
                    started, connectFailed, apiVars >>

Next ==
    \/ ParseArgs
    \/ ParseArgsFail
    \/ Connect
    \/ OpenClient
    \/ GetColumnNames
    \/ OpenScan
    \/ FetchRow
    \/ FetchFail
    \/ EndOfCursor
    \/ PutRows
    \/ Close
    \/ Exit

Spec == Init /\ [][Next]_vars

\* ------------------------------------------------- free call sequences
pipeVars == << exitCode, error, result, srcVars, extractVars, tgtVars, started >>

Called(op, exc) ==
    /\ pc = "api"
    /\ ncalls < MaxCalls
    /\ ncalls' = ncalls + 1
    /\ lastOp' = op
    /\ raised' = exc
    /\ UNCHANGED << pc, pipeVars >>

ApiConnect ==
    \E ok \in BOOLEAN :
      /\ SetSelf(connect(Self, ok))
      /\ connectFailed' = ~ok
      /\ Called("connect", "none")

ApiOpenClient ==
    \E ok \in BOOLEAN :
      LET s == open_client(Self, ok)
      IN  /\ SetSelf(s)
          /\ Called("open_client", s.exc)
          /\ UNCHANGED connectFailed

ApiClose ==
    LET s == close(Self)
    IN  /\ SetSelf(s)
        /\ Called("close", s.exc)
        /\ UNCHANGED connectFailed

NextApi ==
    \/ ApiConnect
    \/ ApiOpenClient
    \/ ApiClose

SpecApi == InitApi /\ [][NextApi]_vars

\* ------------------------------------------------------------------ claims
Finished == pc = "done"

\* The values normalize can produce for v, over the readings of the clock.
Normalized(v) == { normalize(v, now) : now \in Clock }

\* C1: every row R of the table scanned so far has exactly one document, at
\* the same position, with exactly as many fields as R has columns, whose
\* field names are the list get_column_names returned and whose i-th value
\* is the conversion of R[i]; once the scan is over every row has one.
C1_OneDocumentPerRow ==
    /\ Len(rows_dict_list) = cursorPos
    /\ pc \in {"put", "close", "exit"} => Len(rows_dict_list) = Len(tblRows)
    /\ \A j \in 1..Len(rows_dict_list) :
         LET doc == rows_dict_list[j]
             R == tblRows[j]
         IN  /\ Len(doc) = Len(R)
             /\ Keys(doc) = col_names
             /\ \A i \in 1..Len(R) : doc[i].v \in Normalized(R[i])

\* C2: a value that is neither a high-precision decimal, nor a pure calendar
\* date, nor a time interval comes out of the conversion as it went in.
C2_OtherValuesPassThrough ==
    \A p \in conv :
      p.in.t \notin {"Decimal", "date", "timedelta"} => p.out = p.in

\* C3: when the process has ended, on whatever path, no handle that was
\* opened is still open.
C3_AllHandlesReleased ==
    Finished => OpenHandles = {}

\* C4: when the table exists and is empty and the run gets as far as the
\* insert, it ends without error, with an inserted count of 0, the target
\* unchanged and exit status 0.
C4_EmptyTableSucceeds ==
    (Finished /\ tblExists /\ tblRows = << >> /\ "put" \in started) =>
        /\ error = NoError
        /\ result = 0
        /\ target = target0
        /\ exitCode = 0

\* C5: when the table does not exist and the source connection is open, the
\* run fails in the column query itself, no scan is ever started and the
\* target is unchanged.
C5_MissingTableFailsInColumns ==
    (Finished /\ ~tblExists /\ "columns" \in started /\ ~connectFailed) =>
        /\ error.at = "columns"
        /\ "scan" \notin started
        /\ target = target0

\* C6: once connect has failed, no later step of the pipeline is started and
\* the target is unchanged.
C6_ConnectFailureAborts ==
    connectFailed =>
        /\ started \cap {"open_client", "columns", "scan", "put"} = {}
        /\ target = target0

\* Document i of docs collides, on the unique index, with a document that was
\* in the target before the run or with an earlier document of docs.
Collides(docs, i) ==
    /\ uniqueIdx
    /\ \/ \E t \in 1..Len(target0) : IndexKey(target0[t]) = IndexKey(docs[i])
       \/ \E j \in 1..(i - 1) : IndexKey(docs[j]) = IndexKey(docs[i])

FirstRejected(docs, k) ==
    /\ k \in 1..Len(docs)
    /\ Collides(docs, k)
    /\ \A i \in 1..(k - 1) : ~Collides(docs, i)

\* C7: when the insert reaches the server and the k-th document is the first
\* one rejected, the target holds what it held before plus exactly the first
\* k-1 documents, the run has ended with the bulk write error raised by the
\* insert, and that error carries the count k-1; and a bulk write error
\* only ever arises this way.
C7_OrderedInsertStopsAtFirstRejected ==
    /\ \A k \in 1..Len(rows_dict_list) :
         ( /\ "put" \in started
           /\ error.kind # "ServerSelectionTimeoutError"
           /\ FirstRejected(rows_dict_list, k) ) =>
             /\ target = target0 \o SubSeq(rows_dict_list, 1, k - 1)
             /\ Finished
             /\ exitCode \notin {-1, 0}
             /\ error.kind = "BulkWriteError"
             /\ error.at = "put"
             /\ error.nInserted = k - 1
    /\ error.kind = "BulkWriteError" =>
         \E k \in 1..Len(rows_dict_list) : FirstRejected(rows_dict_list, k)

\* C7 witness: an insert that failed after at least one document went in.
C7_Witness ==
    /\ error.kind = "BulkWriteError"
    /\ error.nInserted >= 1
    /\ Len(target) = Len(target0) + error.nInserted

\* The command line was rejected: the process ended before connect.
UsageError == Finished /\ "connect" \notin started

\* C8: the exit status is 0 exactly when the insert returned its result;
\* every run that ends with an error ends with status 100; status 1 only
\* comes from a rejected command line.
C8_ExitCodes ==
    Finished =>
        /\ (exitCode = 0 <=> result # -1)
        /\ (error # NoError => exitCode = 100)
        /\ (exitCode = 1 => UsageError)

\* C9: at most one insert call is issued, and none before the column query
\* has returned and the cursor has been read to its end with one document
\* per row in the list; a run that fails in the column query, in opening the
\* scan or while reading rows leaves the target as it was.
C9_NoWriteBeforeFullExtraction ==
    /\ writes <= 1
    /\ (writes > 0 \/ target # target0) =>
         /\ {"columns", "scan", "put"} \subseteq started
         /\ pc \notin {"columns", "scan", "fetch"}
         /\ cursorPos = Len(tblRows)
         /\ Len(rows_dict_list) = Len(tblRows)
    /\ error.at \in {"columns", "scan", "fetch"} => (writes = 0 /\ target = target0)

\* C9 witness: a table of several rows has been inserted by the one call.
C9_Witness ==
    /\ writes = 1
    /\ Len(tblRows) >= 2
    /\ cursorPos = Len(tblRows)
    /\ Len(target) = Len(target0) + Len(tblRows)

\* C10: in any sequence of connect, open_client and close calls, a call of
\* close raises nothing, closes the handles held in self.connection and
\* self.client once each and no other, leaves both fields None, and no
\* handle is ever closed twice; a close right after a close changes no
\* handle.
C10_CloseReleasesHeldHandlesOnce ==
    [][ (lastOp' = "close" /\ ncalls' = ncalls + 1) =>
          /\ raised' = "none"
          /\ connection' = None
          /\ client' = None
          /\ Len(handles') = Len(handles)
          /\ \A h \in 1..Len(handles) :
               /\ handles'[h].kind = handles[h].kind
               /\ handles'[h].closes =
                    handles[h].closes + (IF h \in {connection, client} THEN 1 ELSE 0)
               /\ handles'[h].closes <= 1
          /\ (lastOp = "close" => handles' = handles)
      ]_vars

\* C10 witness: connect failed, so self.connection stayed None, and close
\* has closed the client alone.
C10_Witness ==
    /\ lastOp = "close"
    /\ connectFailed
    /\ raised = "none"
    /\ connection = None
    /\ client = None
    /\ \E h \in 1..Len(handles) : handles[h].kind = "mongo" /\ handles[h].closes = 1
    /\ \A h \in 1..Len(handles) : handles[h].kind = "mongo"

====
